---- MODULE Spec2Model ----
(***************************************************************************)
(* Model of the structural verification core of                            *)
(* Admissibility_Physics_Engine_V3_5.py: _verify_schema, _detect_cycles,   *)
(* validate_dependencies, and run_master with its producers and            *)
(* export_json.                                                            *)
(*                                                                         *)
(* Python strings are sequences of one-character strings, so that          *)
(* split('(')[0].strip() and startswith() are computed on characters.      *)
(* A dict is a sequence of [k, v] entries with distinct keys, in insertion *)
(* order.  A theorem result is a function whose DOMAIN is the set of       *)
(* fields it has.                                                          *)
(***************************************************************************)
EXTENDS Integers, Sequences, FiniteSets, TLC

VARIABLES
    all_results,   \* the merged batch: dict tid -> result
    pc,            \* position of the run
    idx,           \* validate_dependencies: number of records already handled
    issues,        \* validate_dependencies: the issue list
    graph,         \* _detect_cycles: adjacency dict tid -> list of tids
    color,         \* _detect_cycles: dict tid -> WHITE / GRAY / BLACK
    root,          \* _detect_cycles: number of graph nodes the root loop has passed
    stack,         \* _detect_cycles: the frames of dfs, innermost last
    cycles,        \* _detect_cycles: the joined cycle strings
    chains,        \* the lists the cycle strings were joined from (ghost)
    dep_check,     \* the report validate_dependencies returned
    master,        \* the statistics run_master returned
    exc,           \* the exception that ended the run, "" if none
    result,        \* _verify_schema called alone: its argument
    errors,        \* _verify_schema called alone: its return value
    t0_audit,      \* _run_theorem_0: what importing and running the audit yields
    t0_result,     \* run_master: the records of _run_theorem_0()
    bank_results,  \* run_master: the records of run_theorem_bank()
    gravity_bundle,    \* run_master: the bundle of run_gravity_closure()
    grav_theorems,     \* run_master: the records of _gravity_pre_closure_theorems()
    closure_theorems,  \* run_master: the records registered from the bundle
    dark_theorems,     \* run_master: the records of _dark_sector_theorems()
    report,        \* export_json: the document handed to json.dumps
    first,         \* what the first of two runs on a batch returned, if any (ghost)
    appended,      \* the reference added to a record between two runs, if any (ghost)
    exit_status    \* __main__: the status handed to sys.exit, once it is called

producers == <<t0_audit, t0_result, bank_results, gravity_bundle, grav_theorems,
               closure_theorems, dark_theorems>>

runs == <<report, first, appended, exit_status>>

vars == <<all_results, pc, idx, issues, graph, color, root, stack, cycles, chains,
          dep_check, master, exc, result, errors, producers, runs>>

-----------------------------------------------------------------------------
(* Bounds of the model *)

\* the largest total number of dependency references in a batch
MaxRefs == 4

-----------------------------------------------------------------------------
(* Sequences and dicts *)

Range(s) == {s[n] : n \in 1..Len(s)}

SeqsUpTo(S, n) == UNION {[1..k -> S] : k \in 0..n}

\* d.keys(), in insertion order
Keys(d) == [n \in 1..Len(d) |-> d[n].k]

\* k in d
Has(d, key) == \E n \in 1..Len(d) : d[n].k = key

\* d[k]
Lookup(d, key) == d[CHOOSE n \in 1..Len(d) : d[n].k = key].v

\* d[k] = v: an existing key keeps its place, a new key goes last
Put(d, key, val) ==
    IF Has(d, key)
    THEN [n \in 1..Len(d) |-> IF d[n].k = key THEN [k |-> key, v |-> val] ELSE d[n]]
    ELSE Append(d, [k |-> key, v |-> val])

\* r.get(f, default)
Get(r, f, default) == IF f \in DOMAIN r THEN r[f] ELSE default

-----------------------------------------------------------------------------
(* Strings *)

Whitespace == {" "}

\* s.split('(')[0]: the text before the first '(' (all of s if it has none)
RECURSIVE BeforeParen(_)
BeforeParen(s) ==
    IF s = <<>> \/ Head(s) = "(" THEN <<>>
    ELSE <<Head(s)>> \o BeforeParen(Tail(s))

RECURSIVE LStrip(_)
LStrip(s) ==
    IF s # <<>> /\ Head(s) \in Whitespace THEN LStrip(Tail(s)) ELSE s

RECURSIVE RStrip(_)
RStrip(s) ==
    IF s # <<>> /\ s[Len(s)] \in Whitespace THEN RStrip(SubSeq(s, 1, Len(s) - 1)) ELSE s

\* s.strip()
Strip(s) == RStrip(LStrip(s))

\* s.startswith(p)
StartsWith(s, p) == Len(p) <= Len(s) /\ SubSeq(s, 1, Len(p)) = p

\* a slip: the text before the first '(' is not stripped
CleanNoStrip(d) == BeforeParen(d)

\* d.split('(')[0].strip()
Clean(d) == Strip(BeforeParen(d))

Arrow == <<" ", "-", ">", " ">>

\* ' -> '.join(cycle)
RECURSIVE JoinArrow(_)
JoinArrow(cycle) ==
    IF cycle = <<>> THEN <<>>
    ELSE IF Len(cycle) = 1 THEN cycle[1]
    ELSE cycle[1] \o Arrow \o JoinArrow(Tail(cycle))

-----------------------------------------------------------------------------
(* Python values of a result's fields *)

\* 'passed' is one of the Python values True, False, 1, None
PyBool == {"True", "False"}
IsBool(v) == v \in PyBool
Truthy(v) == v \in {"True", "1"}
TypeName(v) == IF v \in PyBool THEN "bool" ELSE IF v = "None" THEN "NoneType" ELSE "int"

\* 'dependencies' is a list, a tuple or an int; items are its elements
ListOf(items) == [type |-> "list", items |-> items]
TupleOf(items) == [type |-> "tuple", items |-> items]
IntValue == [type |-> "int", items |-> <<>>]
\* a slip: any sequence type is accepted as a list
IsSequence(v) == v.type \in {"list", "tuple"}
IsList(v) == v.type = "list"
Iterable(v) == v.type \in {"list", "tuple"}

-----------------------------------------------------------------------------
(* _verify_schema *)

required == {"name", "tier", "passed", "epistemic", "summary", "key_result",
             "dependencies"}

EpistemicTags == {"P", "P_structural", "C_structural", "C", "W", "ERROR"}

SchemaError(err, fields, value) == [err |-> err, fields |-> fields, value |-> value]

\* a slip: the issue lists the required fields, not the missing ones
MissingErrorAll(r) ==
    IF required \ DOMAIN r # {} THEN <<SchemaError("Missing fields", required, "")>>
    ELSE <<>>

MissingError(r) ==
    LET missing == required \ DOMAIN r
    IN  IF missing # {} THEN <<SchemaError("Missing fields", missing, "")>> ELSE <<>>

PassedError(r) ==
    IF ~IsBool(Get(r, "passed", "None"))
    THEN <<SchemaError("'passed' must be bool", {}, TypeName(Get(r, "passed", "None")))>>
    ELSE <<>>

DependenciesError(r) ==
    IF ~IsList(Get(r, "dependencies", ListOf(<<>>)))
    THEN <<SchemaError("'dependencies' must be list", {}, "")>>
    ELSE <<>>

EpistemicError(r) ==
    IF Get(r, "epistemic", "None") \notin EpistemicTags
    THEN <<SchemaError("Unknown epistemic tag", {}, Get(r, "epistemic", "None"))>>
    ELSE <<>>

_verify_schema(r) ==
    MissingError(r) \o PassedError(r) \o DependenciesError(r) \o EpistemicError(r)

-----------------------------------------------------------------------------
(* AXIOMS / KNOWN_EXTERNALS.  A non-ASCII character is written "U+XXXX". *)

AXIOMS == {<<"A", "1">>, <<"A", "2">>, <<"A", "3">>, <<"A", "4">>, <<"A", "5">>}

KNOWN_EXTERNALS == {
      <<"R", "e", "g", "i", "m", "e", " ", "a", "s", "s", "u", "m", "p", "t", "i", "o", "n">>,
      <<"T", "8", " ", "(", "d", "=", "4", ")">>,
      <<"T", "_", "c", "h", "a", "n", "n", "e", "l", "s">>,
      <<"G", "a", "m", "m", "a", "_", "c", "l", "o", "s", "u", "r", "e">>,
      <<"G", "a", "m", "m", "a", "_", "g", "e", "o", " ", "c", "l", "o", "s", "u", "r", "e">>,
      <<"U+0393", "_", "c", "l", "o", "s", "u", "r", "e">>,
      <<"T", "3">>,
      <<"T", "_", "g", "a", "u", "g", "e">>,
      <<"T", "7">>,
      <<"R", "1", "1">>,
      <<"R", "1", "2">>,
      <<"L", "_", "e", "*">>,
      <<"L", "_", "e", "p", "s", "i", "l", "o", "n", "*">>,
      <<"L", "_", "U+03B5", "*">>,
      <<"m", "e", "a", "n", "i", "n", "g", " ", "=", " ", "r", "o", "b", "u", "s", "t",
        "n", "e", "s", "s", " ", "(", "d", "e", "f", "i", "n", "i", "t", "i", "o", "n",
        "a", "l", ")">> }

-----------------------------------------------------------------------------
(* _detect_cycles: the adjacency list *)

WHITE == 0
GRAY == 1
BLACK == 2

\* r.get('dependencies', []), as the sequence a for loop over it yields
Dependencies(r) == Get(r, "dependencies", ListOf(<<>>)).items

\* deps = [d.split('(')[0].strip() for d in r.get('dependencies', [])]
CleanedDeps(r) == [n \in 1..Len(Dependencies(r)) |-> Clean(Dependencies(r)[n])]

\* a slip: a reference to a record with an axiom's id is kept as an edge
IsRecordId(d, results, axioms) == Has(results, d)

\* d in all_results and d not in axioms
IsEdgeTarget(d, results, axioms) == Has(results, d) /\ d \notin axioms

\* graph[tid] = [d for d in deps if d in all_results and d not in axioms]
Neighbors(r, results, axioms) ==
    LET Keep(d) == IsEdgeTarget(d, results, axioms)
    IN  SelectSeq(CleanedDeps(r), Keep)

BuildGraph(results, axioms) ==
    [n \in 1..Len(results) |->
        [k |-> results[n].k, v |-> Neighbors(results[n].v, results, axioms)]]

\* path.index(x): the first position of x in path (counted from 1)
Index(path, x) == CHOOSE n \in 1..Len(path) :
                      path[n] = x /\ \A m \in 1..(n - 1) : path[m] # x

\* a slip: the whole path is taken, not its part from the revisited node on
CycleFromRoot(path, neighbor) == Append(path, neighbor)

\* cycle = path[cycle_start:] + [neighbor]
CycleOf(path, neighbor) == Append(SubSeq(path, Index(path, neighbor), Len(path)), neighbor)

-----------------------------------------------------------------------------
(* validate_dependencies: the issues of one record *)

Issue(kind, tid, dep, errs, cyc) ==
    [kind |-> kind, tid |-> tid, dep |-> dep, errors |-> errs, cycles |-> cyc]

\* known_ids = set(all_results.keys()) | AXIOMS | KNOWN_EXTERNALS
known_ids(results) == Range(Keys(results)) \cup AXIOMS \cup KNOWN_EXTERNALS

\* a slip: a reference that starts with an axiom id is not exempted
UnresolvedExact(dep, known) == Clean(dep) \notin known /\ dep \notin known

\* the test guarding issues.append(... "-- not in registry")
Unresolved(dep, known) ==
    /\ Clean(dep) \notin known
    /\ dep \notin known
    /\ ~(\E a \in AXIOMS : StartsWith(dep, a))

SchemaIssues(tid, r) ==
    IF _verify_schema(r) # <<>>
    THEN <<Issue("schema errors", tid, <<>>, _verify_schema(r), <<>>)>>
    ELSE <<>>

RECURSIVE DepIssues(_, _, _)
DepIssues(tid, deps, known) ==
    IF deps = <<>> THEN <<>>
    ELSE (IF Unresolved(Head(deps), known)
          THEN <<Issue("not in registry", tid, Head(deps), <<>>, <<>>)>>
          ELSE <<>>) \o DepIssues(tid, Tail(deps), known)

\* a slip: the references are checked before the schema
RecordIssuesReferencesFirst(tid, r, results) ==
    DepIssues(tid, Dependencies(r), known_ids(results)) \o SchemaIssues(tid, r)

\* one pass of the loop over all_results.items()
RecordIssues(tid, r, results) ==
    SchemaIssues(tid, r) \o DepIssues(tid, Dependencies(r), known_ids(results))

\* a slip: one issue is appended for each cycle
CycleIssuesEach(cyc) ==
    [n \in 1..Len(cyc) |-> Issue("CIRCULAR DEPENDENCIES", <<>>, <<>>, <<>>, <<cyc[n]>>)]

\* if cycles: issues.append("CIRCULAR DEPENDENCIES: ...")
CycleIssues(cyc) ==
    IF cyc # <<>> THEN <<Issue("CIRCULAR DEPENDENCIES", <<>>, <<>>, <<>>, cyc)>> ELSE <<>>

\* a slip: valid is computed from the cycles alone
ReportValidIfAcyclic(iss, results, cyc) ==
    [valid |-> Len(cyc) = 0,
     issues |-> iss,
     total_checked |-> Len(results),
     cycles_found |-> Len(cyc)]

\* a slip: cycles_found counts the issues
ReportCountsIssues(iss, results, cyc) ==
    [valid |-> Len(iss) = 0,
     issues |-> iss,
     total_checked |-> Len(results),
     cycles_found |-> Len(iss)]

\* the dict validate_dependencies returns
Report(iss, results, cyc) ==
    [valid |-> Len(iss) = 0,
     issues |-> iss,
     total_checked |-> Len(results),
     cycles_found |-> Len(cyc)]

-----------------------------------------------------------------------------
(* run_master: the statistics step *)

tier_names(tier) ==
    CASE tier = 0 -> "Axiom Foundations"
      [] tier = 1 -> "Gauge Group Selection"
      [] tier = 2 -> "Particle Content"
      [] tier = 3 -> "Continuous Constants / RG"
      [] tier = 4 -> "Gravity + Dark Sector"
      [] tier = 5 -> "Gamma_geo Closure"
      [] OTHER -> "Tier"

\* range(6)
TierRange == 0..5

\* sum(1 for r in d.values() if r['passed'])
RECURSIVE CountPassed(_)
CountPassed(d) ==
    IF d = <<>> THEN 0
    ELSE (IF Truthy(Head(d).v["passed"]) THEN 1 ELSE 0) + CountPassed(Tail(d))

\* tier_results = {k: v for k, v in all_results.items() if v.get('tier') == tier}
TierResults(results, tier) ==
    LET InTier(e) == "tier" \in DOMAIN e.v /\ e.v["tier"] = tier
    IN  SelectSeq(results, InTier)

TierEntry(results, tier) ==
    [name |-> tier_names(tier),
     total |-> Len(TierResults(results, tier)),
     passed |-> CountPassed(TierResults(results, tier)),
     theorems |-> Keys(TierResults(results, tier))]

\* the loop "for tier in range(6)", from tier t on
RECURSIVE TierStatsFrom(_, _)
TierStatsFrom(results, t) ==
    IF t \notin TierRange THEN <<>>
    ELSE (IF TierResults(results, t) # <<>>
          THEN <<[k |-> t, v |-> TierEntry(results, t)]>>
          ELSE <<>>) \o TierStatsFrom(results, t + 1)

tier_stats(results) == TierStatsFrom(results, 0)

\* epistemic_counts[e] = epistemic_counts.get(e, 0) + 1, over all_results.values()
RECURSIVE epistemic_counts(_)
epistemic_counts(d) ==
    IF d = <<>> THEN <<>>
    ELSE LET before == epistemic_counts(SubSeq(d, 1, Len(d) - 1))
             e == d[Len(d)].v["epistemic"]
         IN  Put(before, e, (IF Has(before, e) THEN Lookup(before, e) ELSE 0) + 1)

\* r['passed'] and r['epistemic'] are read of every record: a KeyError without them
StatisticsKeyError(results) ==
    \E n \in 1..Len(results) : {"passed", "epistemic"} \ DOMAIN results[n].v # {}

\* the ids of the framework-level verdicts, lines 523 and 529
gauge_ids == << <<"T", "_", "c", "h", "a", "n", "n", "e", "l", "s">>, <<"T", "7">>,
                <<"T", "_", "g", "a", "u", "g", "e">>, <<"T", "5">> >>

rg_ids == << <<"T", "2", "0">>, <<"T", "2", "1">>, <<"T", "2", "2">>, <<"T", "2", "3">>,
             <<"T", "2", "4">> >>

\* a slip: an id that is not in the batch counts as a failure
AllPassedPresent(results, ids) ==
    \A n \in 1..Len(ids) : Has(results, ids[n]) /\ Truthy(Lookup(results, ids[n])["passed"])

\* all(all_results[t]['passed'] for t in ids if t in all_results)
AllPassed(results, ids) ==
    \A n \in 1..Len(ids) : Has(results, ids[n]) => Truthy(Lookup(results, ids[n])["passed"])

\* 'sector_verdicts': gauge_ok, gravity_ok, rg_ok
sector_verdicts(results, bundle) ==
    [gauge |-> AllPassed(results, gauge_ids),
     gravity |-> bundle.all_pass,
     rg_mechanism |-> AllPassed(results, rg_ids)]

\* the dict run_master returns
Master(results, dep, bundle) ==
    [version |-> "3.5",
     date |-> "2026-02-07",
     total_theorems |-> Len(results),
     passed |-> CountPassed(results),
     all_pass |-> CountPassed(results) = Len(results),
     all_results |-> results,
     epistemic_counts |-> epistemic_counts(results),
     tier_stats |-> tier_stats(results),
     dependency_check |-> dep,
     sector_verdicts |-> sector_verdicts(results, bundle),
     gravity_bundle |-> bundle]

-----------------------------------------------------------------------------
(* The batches the producers hand to the engine *)

idA == <<"A">>
idB == <<"B">>
idC == <<"C">>
idA1 == <<"A", "1">>

refA_x == <<"A", " ", "(", "x", ")">>
refA10 == <<"A", "1", "0">>
refT3_x == <<"T", "3", " ", "(", "x", ")">>
refT8_d4 == <<"T", "8", " ", "(", "d", "=", "4", ")">>
refU == <<"U">>

\* a record with all seven required fields
Theorem(tier, passed, epistemic, deps) ==
    [name |-> "name", tier |-> tier, passed |-> passed, epistemic |-> epistemic,
     summary |-> "summary", key_result |-> "key_result", dependencies |-> deps]

\* r without the fields in gone
Without(r, gone) == [f \in DOMAIN r \ gone |-> r[f]]

\* cuts of a flat reference list into n consecutive dependency lists
Cuts(flat, n) ==
    {c \in [1..(n - 1) -> 0..Len(flat)] : \A m \in 2..(n - 1) : c[m - 1] <= c[m]}

Piece(flat, c, m, n) ==
    SubSeq(flat, (IF m = 1 THEN 0 ELSE c[m - 1]) + 1, IF m = n THEN Len(flat) ELSE c[m])

(* Graph batches: well-formed records whose references name the claims of   *)
(* the batch: three claims; three claims one of which has an axiom id; two   *)
(* claims and an annotated reference.                                        *)
GraphOrders == {<<idA, idB, idC>>, <<idB, idA1, idA>>, <<idA, idB>>}

GraphRefs(order) == IF Len(order) = 2 THEN Range(order) \cup {refA_x} ELSE Range(order)

GraphBatch(order, flat, c) ==
    [n \in 1..Len(order) |->
        [k |-> order[n],
         v |-> Theorem(0, "True", "P", ListOf(Piece(flat, c, n, Len(order))))]]

(* Shape batches: one record of the batch deviates from the schema (or is    *)
(* well-formed), the others are well-formed; references of every kind.       *)
MaxShapeRefs == 2

ShapeOrders == {<<idA>>, <<idA, idB>>}

ShapeRefs == {idA, idB, idA1, refA10, refT3_x, refT8_d4, refU}

Shapes == {"ok", "no_name", "no_passed", "no_epistemic", "no_dependencies", "no_tier",
           "passed_int", "epistemic_X", "deps_tuple", "deps_int", "tier_6"}

Shaped(shape, items) ==
    LET ok == Theorem(1, "True", "P", ListOf(items))
    IN  CASE shape = "ok" -> ok
          [] shape = "no_name" -> Without(ok, {"name"})
          [] shape = "no_passed" -> Without(ok, {"passed"})
          [] shape = "no_epistemic" -> Without(ok, {"epistemic"})
          [] shape = "no_dependencies" -> Without(ok, {"dependencies"})
          [] shape = "no_tier" -> Without(ok, {"tier"})
          [] shape = "passed_int" -> [ok EXCEPT !["passed"] = "1"]
          [] shape = "epistemic_X" -> [ok EXCEPT !["epistemic"] = "X"]
          [] shape = "deps_tuple" -> [ok EXCEPT !["dependencies"] = TupleOf(items)]
          [] shape = "deps_int" -> [ok EXCEPT !["dependencies"] = IntValue]
          [] shape = "tier_6" -> [ok EXCEPT !["tier"] = 6]

ShapeBatch(order, flat, c, j, shape) ==
    [n \in 1..Len(order) |->
        [k |-> order[n],
         v |-> Shaped(IF n = j THEN shape ELSE "ok", Piece(flat, c, n, Len(order)))]]

(* Tier batches: three records without references, of varying tier, outcome  *)
(* and tag.                                                                  *)
TierOrder == <<idA, idB, idC>>

TierChoices == {0, 1, 6} \X {"True", "False"} \X {"P", "W"}

TierBatch(choice) ==
    [n \in 1..Len(TierOrder) |->
        [k |-> TierOrder[n],
         v |-> Theorem(choice[n][1], choice[n][2], choice[n][3], ListOf(<<>>))]]

Nothing == <<>>

\* a gravity bundle: its theorems and its own verdict
Bundle(theorems, all_pass) == [theorems |-> theorems, all_pass |-> all_pass]

\* the state at the call of validate_dependencies(all_results), line 490, of a
\* run whose merged batch is batch
Start(batch) ==
    /\ t0_audit = Nothing
    /\ t0_result = Nothing
    /\ bank_results = Nothing
    /\ gravity_bundle = Bundle(<<>>, TRUE)
    /\ grav_theorems = Nothing
    /\ closure_theorems = Nothing
    /\ dark_theorems = Nothing
    /\ report = Nothing
    /\ first = <<>>
    /\ appended = <<>>
    /\ exit_status = <<>>
    /\ all_results = batch
    /\ pc = "validate"
    /\ idx = 0
    /\ issues = <<>>
    /\ graph = <<>>
    /\ color = <<>>
    /\ root = 0
    /\ stack = <<>>
    /\ cycles = <<>>
    /\ chains = <<>>
    /\ dep_check = Nothing
    /\ master = Nothing
    /\ exc = ""
    /\ result = Nothing
    /\ errors = <<>>

InitGraph ==
    \E order \in GraphOrders : \E flat \in SeqsUpTo(GraphRefs(order), MaxRefs) :
        \E c \in Cuts(flat, Len(order)) : Start(GraphBatch(order, flat, c))

InitShape ==
    \E order \in ShapeOrders : \E flat \in SeqsUpTo(ShapeRefs, MaxShapeRefs) :
        \E c \in Cuts(flat, Len(order)) : \E j \in 1..Len(order) : \E shape \in Shapes :
            Start(ShapeBatch(order, flat, c, j, shape))

InitTier ==
    \E choice \in [1..Len(TierOrder) -> TierChoices] : Start(TierBatch(choice))

Init == InitGraph \/ InitShape \/ InitTier

-----------------------------------------------------------------------------
(* The producers of run_master, lines 110-317 and 375-478 *)

idT0 == <<"T", "0">>
idT1 == <<"T", "1">>
idT2 == <<"T", "2">>
idT3 == <<"T", "3">>
idT5 == <<"T", "5">>
idT7 == <<"T", "7">>
idT7B == <<"T", "7", "B">>
idT8 == <<"T", "8">>
idT9_grav == <<"T", "9", "_", "g", "r", "a", "v">>
idT10 == <<"T", "1", "0">>
idT11 == <<"T", "1", "1">>
idT12 == <<"T", "1", "2">>
idT12E == <<"T", "1", "2", "E">>
idT20 == <<"T", "2", "0">>
idT4F == <<"T", "4", "F">>
idT_M == <<"T", "_", "M">>
idT_particle == <<"T", "_", "p", "a", "r", "t", "i", "c", "l", "e">>
idT_gauge == <<"T", "_", "g", "a", "u", "g", "e">>
idGamma_closure == <<"G", "a", "m", "m", "a", "_", "c", "l", "o", "s", "u", "r", "e">>
idR11 == <<"R", "1", "1">>
idL_e == <<"L", "_", "e", "*">>
idA2 == <<"A", "2">>
idA4 == <<"A", "4">>
idA5 == <<"A", "5">>

\* a result record with the seven required fields
Result(name, tier, passed, epistemic, summary, key_result, deps) ==
    [name |-> name, tier |-> tier, passed |-> passed, epistemic |-> epistemic,
     summary |-> summary, key_result |-> key_result, dependencies |-> ListOf(deps)]

\* r with one more field
With(r, f, val) == [g \in DOMAIN r \cup {f} |-> IF g = f THEN val ELSE r[g]]

\* Python's bool as a value of 'passed'
PyOf(b) == IF b THEN "True" ELSE "False"

\* what "from theorem_0_canonical_v4 import run_audit_v4; run_audit_v4()" yields:
\* an ImportError, another exception, or a report with the passed flags of the
\* two certificates and the two countermodels
AuditReport(t02b, r4b, cm_add, cm_free) ==
    [outcome |-> "report", t02b |-> t02b, r4b |-> r4b, cm_add |-> cm_add,
     cm_free |-> cm_free]

AuditRaises(e) ==
    [outcome |-> e, t02b |-> FALSE, r4b |-> FALSE, cm_add |-> FALSE, cm_free |-> FALSE]

T0Record(passed, summary, key_result) ==
    Result("T0: Axiom Witness Certificates (Canonical v4)", 0, passed, "P", summary,
           key_result, <<idA1, idA2, idA4>>)

\* a slip: every failure of the producer is resolved to no records
_run_theorem_0_skip(audit) ==
    IF audit.outcome = "report"
    THEN LET all_ok == audit.t02b /\ audit.r4b /\ ~audit.cm_add /\ ~audit.cm_free
         IN  <<[k |-> idT0,
                v |-> With(With(T0Record(PyOf(all_ok), "Finite-world witness certificates",
                                         "Axiom witnesses"),
                                "imported_theorems", <<>>),
                           "t0_report", [T02b_pass |-> audit.t02b, R4b_pass |-> audit.r4b,
                                         CM_additive_correctly_fails |-> ~audit.cm_add,
                                         CM_free_correctly_fails |-> ~audit.cm_free])]>>
    ELSE <<>>

\* _run_theorem_0(), lines 385-443
_run_theorem_0(audit) ==
    CASE audit.outcome = "report" ->
           LET t02b_pass == audit.t02b
               r4b_pass == audit.r4b
               cm_add_fail == ~audit.cm_add
               cm_free_fail == ~audit.cm_free
               all_ok == t02b_pass /\ r4b_pass /\ cm_add_fail /\ cm_free_fail
           IN  <<[k |-> idT0,
                  v |-> With(With(T0Record(PyOf(all_ok), "Finite-world witness certificates",
                                           "Axiom witnesses"),
                                  "imported_theorems", <<>>),
                             "t0_report", [T02b_pass |-> t02b_pass, R4b_pass |-> r4b_pass,
                                           CM_additive_correctly_fails |-> cm_add_fail,
                                           CM_free_correctly_fails |-> cm_free_fail])]>>
      [] audit.outcome = "ImportError" -> <<>>
      [] OTHER -> <<[k |-> idT0,
                     v |-> T0Record("False", "T0 audit failed", "ERROR")]>>

\* the details of an imported theorem: a description string, or a record with a
\* statement and a bridge
Text(text) == [type |-> "str", text |-> text]
Statement(text) == [type |-> "dict", statement |-> text, bridge |-> "bridge"]

\* _gravity_pre_closure_theorems(), lines 116-259
_gravity_pre_closure_theorems ==
    << [k |-> idT7B,
        v |-> With(Result("T7B: Gravity from Non-Factorization (Lemma 7B)", 4, "True", "P",
                          "summary", "Shared interface -> metric tensor g_uv",
                          <<idT3, idA1, idA4>>),
                   "imported_theorems",
                   <<[k |-> "Polarization identity", v |-> Text("description")]>>)],
       [k |-> idT8,
        v |-> With(Result("T8: Spacetime Dimension d = 4", 4, "True", "P", "summary",
                          "d = 4 spacetime dimensions", <<idT_gauge, idA1, idA5>>),
                   "imported_theorems",
                   <<[k |-> "Pigeonhole principle", v |-> Text("description")]>>)],
       [k |-> idT9_grav,
        v |-> With(Result("T9: Einstein Field Equations", 4, "True", "P", "summary",
                          "G_uv + Lambda*g_uv = kappa*T_uv (Lovelock)",
                          <<idT7B, idT8, idGamma_closure>>),
                   "imported_theorems",
                   <<[k |-> "Lovelock theorem (1971)", v |-> Statement("statement")],
                     [k |-> "Fundamental Theorem of Riemannian Geometry",
                      v |-> Statement("statement")]>>)],
       [k |-> idT10,
        v |-> Result("T10: Gravitational Coupling kappa ~ 1/C_*", 4, "True", "P_structural",
                     "summary", "kappa ~ 1/C_* (structural)", <<idT9_grav, idA1>>)],
       [k |-> idT11,
        v |-> With(Result("T11: Cosmological Constant from Capacity Residual", 4, "True",
                          "P_structural", "summary", "Lambda ~ residual capacity / volume",
                          <<idT9_grav, idT4F, idR11>>),
                   "regime_gates", <<[k |-> "R11", v |-> "Lambda capacity regime"]>>)],
       [k |-> idT_particle,
        v |-> With(Result("T_particle: Mass Gap & Particle Emergence", 4, "True", "P",
                          "summary",
                          "SSB forced, mass gap from V(Phi), particles = quantum modes",
                          <<idL_e, idT_M, idA1, idA4, idT1, idT2>>),
                   "imported_theorems",
                   <<[k |-> "Intermediate Value Theorem", v |-> Text("description")],
                     [k |-> "Second Derivative Test", v |-> Text("description")]>>)] >>

\* _dark_sector_theorems(), lines 284-317
_dark_sector_theorems ==
    << [k |-> idT12,
        v |-> With(Result("T12: Dark Matter = Gauge-Singlet Capacity", 4, "True",
                          "P_structural", "summary",
                          "DM = gauge-singlet capacity (not particle)",
                          <<idA1, idT_gauge, idT8>>),
                   "regime_gates", <<[k |-> "R12.1", v |-> "Linear cost scaling"],
                                     [k |-> "R12.2", v |-> "Efficient allocation"]>>)],
       [k |-> idT12E,
        v |-> Result("T12E: Baryon Fraction f_b = 1/(1+alpha)", 4, "True", "P_structural",
                     "summary", "f_b = 0.200 (obs: 0.157)", <<idT12, idT11>>)] >>

\* tid = f'Gamma_{key}'
GammaId(key) == <<"G", "a", "m", "m", "a", "_">> \o key

\* thm['summary'][:80]
First80(text) == SubSeq(text, 1, IF Len(text) < 80 THEN Len(text) ELSE 80)

\* closure_theorems[tid] = {...}, lines 467-475
ClosureTheorem(thm) ==
    [name |-> thm["name"],
     tier |-> 5,
     passed |-> thm["passed"],
     epistemic |-> thm["epistemic"],
     summary |-> thm["summary"],
     key_result |-> Get(thm, "key_result", First80(thm["summary"])),
     dependencies |-> Get(thm, "dependencies", ListOf(<<idA1, idA4>>))]

\* the loop over gravity_bundle['theorems'].items(), lines 464-475
RECURSIVE RegisterClosure(_)
RegisterClosure(theorems) ==
    IF theorems = <<>> THEN <<>>
    ELSE LET before == RegisterClosure(SubSeq(theorems, 1, Len(theorems) - 1))
             last == theorems[Len(theorems)]
         IN  Put(before, GammaId(last.k), ClosureTheorem(last.v))

\* a slip: a key that is already in the batch keeps its first record
RECURSIVE UpdateKeepFirst(_, _)
UpdateKeepFirst(d, other) ==
    IF other = <<>> THEN d
    ELSE UpdateKeepFirst(IF Has(d, Head(other).k) THEN d
                         ELSE Put(d, Head(other).k, Head(other).v), Tail(other))

\* d.update(other)
RECURSIVE Update(_, _)
Update(d, other) ==
    IF other = <<>> THEN d
    ELSE Update(Put(d, Head(other).k, Head(other).v), Tail(other))

\* lines 481-487
Merge(t0, bank, grav, closure, dark) ==
    LET from_t0 == IF t0 # <<>> THEN Update(<<>>, t0) ELSE <<>>
    IN  Update(Update(Update(Update(from_t0, bank), grav), closure), dark)

-----------------------------------------------------------------------------
(* validate_dependencies *)

\* one pass of "for tid, r in all_results.items()"
ValidateRecord ==
    /\ pc = "validate"
    /\ idx < Len(all_results)
    /\ Iterable(Get(all_results[idx + 1].v, "dependencies", ListOf(<<>>)))
    /\ issues' = issues \o RecordIssues(all_results[idx + 1].k, all_results[idx + 1].v,
                                        all_results)
    /\ idx' = idx + 1
    /\ UNCHANGED <<all_results, pc, graph, color, root, stack, cycles, chains,
                   dep_check, master, exc, result, errors>>
    /\ UNCHANGED <<producers, runs>>

\* "for dep in r.get('dependencies', [])" over a value that is not iterable
ValidateRaise ==
    /\ pc = "validate"
    /\ idx < Len(all_results)
    /\ ~Iterable(Get(all_results[idx + 1].v, "dependencies", ListOf(<<>>)))
    /\ pc' = "raised"
    /\ exc' = "TypeError"
    /\ UNCHANGED <<all_results, idx, issues, graph, color, root, stack, cycles, chains,
                   dep_check, master, result, errors>>
    /\ UNCHANGED <<producers, runs>>

\* _detect_cycles, lines 74-83: the graph, the colours, the empty cycle list
DetectCyclesBuild ==
    /\ pc = "validate"
    /\ idx = Len(all_results)
    /\ graph' = BuildGraph(all_results, AXIOMS)
    /\ color' = [tid \in Range(Keys(all_results)) |-> WHITE]
    /\ cycles' = <<>>
    /\ chains' = <<>>
    /\ root' = 0
    /\ stack' = <<>>
    /\ pc' = "dfs"
    /\ UNCHANGED <<all_results, idx, issues, dep_check, master, exc, result, errors>>
    /\ UNCHANGED <<producers, runs>>

\* a slip: the path is not handed down to the inner call
FrameOfNode(node, path) == [node |-> node, path |-> <<node>>, n |-> 0]

\* a call dfs(node, path), before the first pass of its loop
Frame(node, path) == [node |-> node, path |-> path, n |-> 0]

\* a slip: a node is marked as finished when it is entered (two colours)
EnterBlack(col, node) == [col EXCEPT ![node] = BLACK]

\* color[node] = GRAY, on entering dfs(node, path)
Enter(col, node) == [col EXCEPT ![node] = GRAY]

\* a slip: a node is unmarked when the search leaves it
FinishWhite(col, node) == [col EXCEPT ![node] = WHITE]

\* color[node] = BLACK, on leaving dfs(node, path)
Finish(col, node) == [col EXCEPT ![node] = BLACK]

\* if color[neighbor] == GRAY
OnPath(col, neighbor) == col[neighbor] = GRAY

\* elif color[neighbor] == WHITE
Unvisited(col, neighbor) == col[neighbor] = WHITE

Top == stack[Len(stack)]

\* the frame below the top waits in its loop: it moves on when the top returns
Pop(s) == SubSeq(s, 1, Len(s) - 1)

StepTop(s) == [s EXCEPT ![Len(s)].n = @ + 1]

\* "for node in graph: if color[node] == WHITE: dfs(node, [node])"
DfsRoot ==
    /\ pc = "dfs"
    /\ stack = <<>>
    /\ root < Len(graph)
    /\ root' = root + 1
    /\ IF Unvisited(color, graph[root + 1].k)
       THEN /\ stack' = <<Frame(graph[root + 1].k, <<graph[root + 1].k>>)>>
            /\ color' = Enter(color, graph[root + 1].k)
       ELSE UNCHANGED <<stack, color>>
    /\ UNCHANGED <<all_results, pc, idx, issues, graph, cycles, chains, dep_check,
                   master, exc, result, errors>>
    /\ UNCHANGED <<producers, runs>>

\* one pass of "for neighbor in graph.get(node, [])" in the innermost dfs
DfsNeighbor ==
    /\ pc = "dfs"
    /\ stack # <<>>
    /\ Top.n < Len(Lookup(graph, Top.node))
    /\ LET neighbor == Lookup(graph, Top.node)[Top.n + 1]
       IN  CASE neighbor \notin DOMAIN color ->
                  /\ stack' = StepTop(stack)
                  /\ UNCHANGED <<color, cycles, chains, pc, exc>>
             [] neighbor \in DOMAIN color /\ OnPath(color, neighbor) ->
                  IF neighbor \in Range(Top.path)
                  THEN /\ cycles' = Append(cycles, JoinArrow(CycleOf(Top.path, neighbor)))
                       /\ chains' = Append(chains, CycleOf(Top.path, neighbor))
                       /\ stack' = StepTop(stack)
                       /\ UNCHANGED <<color, pc, exc>>
                  ELSE /\ pc' = "raised"
                       /\ exc' = "ValueError"
                       /\ UNCHANGED <<stack, color, cycles, chains>>
             [] neighbor \in DOMAIN color /\ ~OnPath(color, neighbor)
                                         /\ Unvisited(color, neighbor) ->
                  /\ stack' = Append(StepTop(stack),
                                     Frame(neighbor, Append(Top.path, neighbor)))
                  /\ color' = Enter(color, neighbor)
                  /\ UNCHANGED <<cycles, chains, pc, exc>>
             [] OTHER ->
                  /\ stack' = StepTop(stack)
                  /\ UNCHANGED <<color, cycles, chains, pc, exc>>
    /\ UNCHANGED <<all_results, idx, issues, graph, root, dep_check, master, result,
                   errors>>
    /\ UNCHANGED <<producers, runs>>

\* the loop of the innermost dfs is over: color[node] = BLACK, return
DfsReturn ==
    /\ pc = "dfs"
    /\ stack # <<>>
    /\ Top.n = Len(Lookup(graph, Top.node))
    /\ color' = Finish(color, Top.node)
    /\ stack' = Pop(stack)
    /\ UNCHANGED <<all_results, pc, idx, issues, graph, root, cycles, chains, dep_check,
                   master, exc, result, errors>>
    /\ UNCHANGED <<producers, runs>>

\* _detect_cycles returns; lines 356-364 build the report
ValidateReturn ==
    /\ pc = "dfs"
    /\ stack = <<>>
    /\ root = Len(graph)
    /\ issues' = issues \o CycleIssues(cycles)
    /\ dep_check' = Report(issues \o CycleIssues(cycles), all_results, cycles)
    /\ pc' = "statistics"
    /\ UNCHANGED <<all_results, idx, graph, color, root, stack, cycles, chains, master,
                   exc, result, errors>>
    /\ UNCHANGED <<producers, runs>>

-----------------------------------------------------------------------------
(* run_master, lines 492-549 *)

ComputeStatistics ==
    /\ pc = "statistics"
    /\ ~StatisticsKeyError(all_results)
    /\ master' = Master(all_results, dep_check, gravity_bundle)
    /\ pc' = "done"
    /\ UNCHANGED <<all_results, idx, issues, graph, color, root, stack, cycles, chains,
                   dep_check, exc, result, errors>>
    /\ UNCHANGED <<producers, runs>>

StatisticsRaise ==
    /\ pc = "statistics"
    /\ StatisticsKeyError(all_results)
    /\ pc' = "raised"
    /\ exc' = "KeyError"
    /\ UNCHANGED <<all_results, idx, issues, graph, color, root, stack, cycles, chains,
                   dep_check, master, result, errors>>
    /\ UNCHANGED <<producers, runs>>

-----------------------------------------------------------------------------
(* run_master, lines 451-490: the producers and the merge *)

\* what the Theorem-0 audit may yield
T0Audits ==
    {AuditRaises("ImportError"), AuditRaises("Exception"),
     AuditReport(TRUE, TRUE, FALSE, FALSE), AuditReport(FALSE, TRUE, FALSE, FALSE),
     AuditReport(TRUE, TRUE, TRUE, FALSE)}

Entry(tid, r) == <<[k |-> tid, v |-> r]>>

\* what run_theorem_bank() may return: up to two records, among them records of
\* the verdict ids, records whose ids other stages supply too, and malformed ones
BankFirst ==
    {<<>>,
     Entry(idT0, Theorem(1, "True", "P", ListOf(<<>>))),
     Entry(idT5, Theorem(1, "True", "P", ListOf(<<>>))),
     Entry(idT5, Theorem(1, "False", "P", ListOf(<<>>))),
     Entry(idT5, Without(Theorem(1, "True", "P", ListOf(<<>>)), {"passed"}))}

BankSecond ==
    {<<>>,
     Entry(idT7, Theorem(2, "True", "P", ListOf(<<idT5>>))),
     Entry(idT7, Theorem(2, "False", "P", ListOf(<<>>))),
     Entry(idT20, Theorem(3, "False", "W", ListOf(<<>>))),
     Entry(idT8, Theorem(3, "False", "C", ListOf(<<>>))),
     Entry(idT12, Theorem(3, "False", "C", ListOf(<<>>))),
     Entry(idGamma_closure, Theorem(3, "False", "C", ListOf(<<idT9_grav>>))),
     Entry(idT4F, [Theorem(3, "True", "P", ListOf(<<>>)) EXCEPT !["dependencies"] = IntValue])}

keyClosure == <<"c", "l", "o", "s", "u", "r", "e">>
keyContinuum == <<"c", "o", "n", "t", "i", "n", "u", "u", "m">>

\* a theorem of the gravity bundle; key_result and dependencies are optional
BundleTheorem(passed) ==
    [name |-> "name", passed |-> passed, epistemic |-> "P",
     summary |-> <<"s", "u", "m", "m", "a", "r", "y">>]

BundleTheoremFull(passed) ==
    [name |-> "name", passed |-> passed, epistemic |-> "P",
     summary |-> <<"s", "u", "m", "m", "a", "r", "y">>, key_result |-> "key_result",
     dependencies |-> ListOf(<<idT8>>)]

\* what run_gravity_closure() may return
Bundles ==
    {Bundle(<<>>, TRUE),
     Bundle(Entry(keyClosure, BundleTheorem("True")), TRUE),
     Bundle(Entry(keyClosure, BundleTheorem("False")), FALSE),
     Bundle(Entry(keyClosure, BundleTheorem("True"))
                \o Entry(keyContinuum, BundleTheoremFull("False")), FALSE),
     Bundle(Entry(keyClosure, BundleTheorem("True"))
                \o Entry(keyContinuum, BundleTheoremFull("True")), TRUE)}

\* the state at the call of run_master()
InitMaster ==
    /\ t0_audit \in T0Audits
    /\ t0_result = Nothing
    /\ bank_results = Nothing
    /\ gravity_bundle = Nothing
    /\ grav_theorems = Nothing
    /\ closure_theorems = Nothing
    /\ dark_theorems = Nothing
    /\ report = Nothing
    /\ first = <<>>
    /\ appended = <<>>
    /\ exit_status = <<>>
    /\ all_results = <<>>
    /\ pc = "run_master"
    /\ idx = 0
    /\ issues = <<>>
    /\ graph = <<>>
    /\ color = <<>>
    /\ root = 0
    /\ stack = <<>>
    /\ cycles = <<>>
    /\ chains = <<>>
    /\ dep_check = Nothing
    /\ master = Nothing
    /\ exc = ""
    /\ result = Nothing
    /\ errors = <<>>

\* line 452: t0_result = _run_theorem_0()
RunTheorem0 ==
    /\ pc = "run_master"
    /\ t0_result' = _run_theorem_0(t0_audit)
    /\ pc' = "producers"
    /\ UNCHANGED <<all_results, idx, issues, graph, color, root, stack, cycles, chains,
                   dep_check, master, exc, result, errors>>
    /\ UNCHANGED <<t0_audit, bank_results, gravity_bundle, grav_theorems,
                   closure_theorems, dark_theorems, runs>>

\* lines 455-478: the theorem bank, the gravity closure, the registered records
RunProducers ==
    /\ pc = "producers"
    /\ \E first_part \in BankFirst : \E second_part \in BankSecond :
          bank_results' = first_part \o second_part
    /\ \E bundle \in Bundles :
          /\ gravity_bundle' = bundle
          /\ closure_theorems' = RegisterClosure(bundle.theorems)
    /\ grav_theorems' = _gravity_pre_closure_theorems
    /\ dark_theorems' = _dark_sector_theorems
    /\ pc' = "merge"
    /\ UNCHANGED <<all_results, idx, issues, graph, color, root, stack, cycles, chains,
                   dep_check, master, exc, result, errors>>
    /\ UNCHANGED <<t0_audit, t0_result, runs>>

\* a slip: the issue list outlives the call
KeptIssues == issues

\* issues = [], line 341
NewIssues == <<>>

\* lines 481-490: the merge, and the call of validate_dependencies(all_results)
MergeResults ==
    /\ pc = "merge"
    /\ all_results' = Merge(t0_result, bank_results, grav_theorems, closure_theorems,
                            dark_theorems)
    /\ issues' = NewIssues
    /\ idx' = 0
    /\ pc' = "validate"
    /\ UNCHANGED <<graph, color, root, stack, cycles, chains, dep_check, master, exc,
                   result, errors>>
    /\ UNCHANGED <<producers, runs>>

-----------------------------------------------------------------------------
(* export_json, lines 843-961 *)

\* _classify_gap: closed, imports, open_physics, aliases (lines 733-761)
closed ==
    {<<"T", "0">>, <<"L", "_", "e", "*">>,
     <<"L", "_", "e", "p", "s", "i", "l", "o", "n", "*">>, <<"L", "_", "U+03B5", "*">>,
     <<"T", "_", "e">>, <<"T", "_", "e", "p", "s", "i", "l", "o", "n">>,
     <<"T", "_", "U+03B5">>, <<"T", "_", "e", "t", "a">>, <<"T", "_", "U+03B7">>,
     <<"T", "_", "k", "a", "p", "p", "a">>, <<"T", "_", "U+03BA">>, <<"T", "_", "M">>,
     <<"T", "1">>, <<"T", "2">>, <<"T", "3">>, <<"T", "4">>, <<"T", "5">>,
     <<"T", "_", "g", "a", "u", "g", "e">>, <<"T", "4", "E">>, <<"T", "4", "F">>,
     <<"T", "9">>, <<"T", "7">>, <<"T", "_", "c", "h", "a", "n", "n", "e", "l", "s">>,
     <<"T", "_", "f", "i", "e", "l", "d">>, <<"T", "_", "H", "i", "g", "g", "s">>,
     <<"T", "1", "9">>, <<"T", "2", "0">>, <<"T", "2", "1">>, <<"T", "2", "2">>,
     <<"T", "2", "3">>, <<"T", "2", "4">>, <<"T", "2", "5", "a">>,
     <<"T", "2", "5", "b">>, <<"T", "2", "6">>, <<"T", "2", "7", "c">>,
     <<"T", "2", "7", "d">>, <<"T", "_", "s", "i", "n", "2", "t", "h", "e", "t", "a">>,
     <<"T", "7", "B">>, <<"T", "_", "p", "a", "r", "t", "i", "c", "l", "e">>,
     <<"T", "8">>, <<"T", "1", "2">>, <<"T", "1", "2", "E">>,
     <<"G", "a", "m", "m", "a", "_", "o", "r", "d", "e", "r", "i", "n", "g">>,
     <<"G", "a", "m", "m", "a", "_", "f", "b", "c">>,
     <<"G", "a", "m", "m", "a", "_", "p", "a", "r", "t", "i", "c", "l", "e">>,
     <<"G", "a", "m", "m", "a", "_", "c", "o", "n", "t", "i", "n", "u", "u", "m">>,
     <<"G", "a", "m", "m", "a", "_", "c", "l", "o", "s", "u", "r", "e">>,
     <<"T", "9", "_", "g", "r", "a", "v">>,
     <<"G", "a", "m", "m", "a", "_", "s", "i", "g", "n", "a", "t", "u", "r", "e">>}

imports ==
    {<<"T", "6">>, <<"T", "6", "B">>}

open_physics ==
    {<<"T", "4", "G">>, <<"T", "4", "G", "_", "Q", "3", "1">>, <<"T", "1", "0">>,
     <<"T", "1", "1">>}

aliases ==
    <<[k |-> <<"L", "_", "U+03B5", "*">>, v |-> <<"L", "_", "e", "p", "s", "i", "l", "o", "n", "*">>],
      [k |-> <<"L", "_", "e", "*">>, v |-> <<"L", "_", "e", "p", "s", "i", "l", "o", "n", "*">>],
      [k |-> <<"T", "_", "U+03B5">>, v |-> <<"T", "_", "e", "p", "s", "i", "l", "o", "n">>],
      [k |-> <<"T", "_", "e">>, v |-> <<"T", "_", "e", "p", "s", "i", "l", "o", "n">>],
      [k |-> <<"T", "_", "U+03B7">>, v |-> <<"T", "_", "e", "t", "a">>],
      [k |-> <<"T", "_", "U+03BA">>, v |-> <<"T", "_", "k", "a", "p", "p", "a">>]>>

\* export_json: the id sets of the P_structural reason codes (lines 905-908)
open_phys ==
    {<<"T", "4", "G">>, <<"T", "4", "G", "_", "Q", "3", "1">>, <<"T", "1", "0">>,
     <<"T", "1", "1">>}

qft_import ==
    {<<"T", "6">>, <<"T", "6", "B">>}

regime_dep ==
    {<<"T", "1", "2">>, <<"T", "1", "2", "E">>}

rep_selection ==
    {<<"T", "_", "f", "i", "e", "l", "d">>}

\* export_json: the predictions table, by theorem and status (lines 847-864)
predictions ==
    <<[theorem |-> <<"T", "2", "4">>, status |-> "derived"],
      [theorem |-> <<"T", "_", "g", "a", "u", "g", "e">>, status |-> "exact"],
      [theorem |-> <<"T", "7">>, status |-> "exact"],
      [theorem |-> <<"T", "8">>, status |-> "exact"],
      [theorem |-> <<"T", "_", "H", "i", "g", "g", "s">>, status |-> "exact"],
      [theorem |-> <<"T", "1", "2">>, status |-> "structural"],
      [theorem |-> <<"T", "1", "1">>, status |-> "structural"],
      [theorem |-> <<"T", "1", "2", "E">>, status |-> "structural"]>>

\* export_json: the audit checks, by id and status (lines 867-887)
audit_checks ==
    <<[id |-> "A01", status |-> "FIXED"],
      [id |-> "A02", status |-> "FIXED"],
      [id |-> "A03", status |-> "FIXED"],
      [id |-> "A04", status |-> "FIXED"],
      [id |-> "A05", status |-> "FIXED"],
      [id |-> "A06", status |-> "FIXED"],
      [id |-> "A07", status |-> "ACTIVE"],
      [id |-> "A08", status |-> "ACTIVE"],
      [id |-> "A09", status |-> "ACTIVE"],
      [id |-> "A10", status |-> "FIXED"],
      [id |-> "A11", status |-> "ACTIVE"],
      [id |-> "A12", status |-> "FIXED"],
      [id |-> "A13", status |-> "FIXED"],
      [id |-> "A14", status |-> "FIXED"],
      [id |-> "A15", status |-> "FIXED"],
      [id |-> "A16", status |-> "FIXED"],
      [id |-> "A17", status |-> "FIXED"],
      [id |-> "A18", status |-> "FIXED"],
      [id |-> "A19", status |-> "FIXED"]>>

\* _classify_gap(tid), lines 762-770
_classify_gap(tid) ==
    LET check_tid == IF Has(aliases, tid) THEN Lookup(aliases, tid) ELSE tid
    IN  IF check_tid \in closed THEN "closed"
        ELSE IF check_tid \in imports THEN "import"
        ELSE IF check_tid \in open_physics THEN "open_physics"
        ELSE "reduced"

\* details if isinstance(details, str) else details.get('statement', str(details))
DetailsOf(details) ==
    IF details.type = "str" THEN details.text ELSE Get(details, "statement", "str(details)")

\* lines 895-901, for one imported theorem of one record
AddImport(all_imports, thm_name, details, tid) ==
    LET known == IF Has(all_imports, thm_name) THEN all_imports
                 ELSE Put(all_imports, thm_name,
                          [used_by |-> <<>>, details |-> DetailsOf(details)])
    IN  Put(known, thm_name,
            [Lookup(known, thm_name) EXCEPT !.used_by = Append(@, tid)])

RECURSIVE AddImports(_, _, _)
AddImports(all_imports, imp, tid) ==
    IF imp = <<>> THEN all_imports
    ELSE AddImports(AddImport(all_imports, Head(imp).k, Head(imp).v, tid), Tail(imp), tid)

\* the math imports catalog, lines 890-901
RECURSIVE math_imports(_)
math_imports(results) ==
    IF results = <<>> THEN <<>>
    ELSE LET last == results[Len(results)]
         IN  AddImports(math_imports(SubSeq(results, 1, Len(results) - 1)),
                        Get(last.v, "imported_theorems", <<>>), last.k)

\* lines 911-920
PsReason(tid) ==
    IF tid \in open_phys THEN "open_physics"
    ELSE IF tid \in qft_import THEN "qft_import"
    ELSE IF tid \in regime_dep THEN "regime_dependent"
    ELSE IF tid \in rep_selection THEN "rep_selection"
    ELSE "other"

\* the P_structural reason codes, lines 904-920
RECURSIVE ps_reasons(_)
ps_reasons(results) ==
    IF results = <<>> THEN <<>>
    ELSE LET last == results[Len(results)]
             before == ps_reasons(SubSeq(results, 1, Len(results) - 1))
         IN  IF last.v["epistemic"] = "P_structural"
             THEN Put(before, last.k, PsReason(last.k))
             ELSE before

Digits == <<"0", "1", "2", "3", "4", "5", "6", "7", "8", "9">>

\* str(k), for a tier key
StrOfTier(k) == <<Digits[k + 1]>>

\* {str(k): {'name': ..., 'passed': ..., 'total': ...} for k, v in tier_stats.items()}
ExportedTierStats(stats) ==
    [n \in 1..Len(stats) |->
        [k |-> StrOfTier(stats[n].k),
         v |-> [name |-> stats[n].v.name, passed |-> stats[n].v.passed,
                total |-> stats[n].v.total]]]

\* a slip: the last ten issues are kept
LastTen(iss) == SubSeq(iss, IF Len(iss) < 10 THEN 1 ELSE Len(iss) - 9, Len(iss))

\* issues[:10]
FirstTen(iss) == SubSeq(iss, 1, IF Len(iss) < 10 THEN Len(iss) ELSE 10)

\* the entry of one record, lines 947-959
TheoremEntry(tid, r, reasons) ==
    LET entry == [name |-> r["name"],
                  tier |-> Get(r, "tier", -1),
                  passed |-> r["passed"],
                  epistemic |-> r["epistemic"],
                  key_result |-> Get(r, "key_result", ""),
                  gap_type |-> _classify_gap(tid),
                  dependencies |-> Get(r, "dependencies", ListOf(<<>>))]
        imported == IF Get(r, "imported_theorems", <<>>) # <<>>
                    THEN With(entry, "imported_theorems", Keys(r["imported_theorems"]))
                    ELSE entry
    IN  IF Has(reasons, tid) THEN With(imported, "ps_reason", Lookup(reasons, tid))
        ELSE imported

\* report['theorems'][tid] = entry, over all_results.items()
RECURSIVE ExportedTheorems(_, _)
ExportedTheorems(results, reasons) ==
    IF results = <<>> THEN <<>>
    ELSE LET last == results[Len(results)]
         IN  Put(ExportedTheorems(SubSeq(results, 1, Len(results) - 1), reasons),
                 last.k, TheoremEntry(last.k, last.v, reasons))

\* the report dict, lines 923-960
ReportDocument(m) ==
    [version |-> m.version,
     date |-> m.date,
     total_theorems |-> m.total_theorems,
     passed |-> m.passed,
     all_pass |-> m.all_pass,
     epistemic_counts |-> m.epistemic_counts,
     sector_verdicts |-> m.sector_verdicts,
     dependency_check |-> [valid |-> m.dependency_check.valid,
                           cycles |-> m.dependency_check.cycles_found,
                           issues |-> FirstTen(m.dependency_check.issues)],
     tier_stats |-> ExportedTierStats(m.tier_stats),
     predictions |-> predictions,
     audit_checks |-> audit_checks,
     math_imports |-> math_imports(m.all_results),
     p_structural_reasons |-> ps_reasons(m.all_results),
     theorems |-> ExportedTheorems(m.all_results, ps_reasons(m.all_results))]

\* json.dumps of a 'passed' value: true, false, a number, null
JsonOfPassed(v) ==
    CASE v = "True" -> "true" [] v = "False" -> "false" [] v = "None" -> "null"
      [] OTHER -> v

\* json.dumps of a 'dependencies' value: a list and a tuple are both arrays
JsonOfDependencies(v) == IF v.type = "tuple" THEN [v EXCEPT !.type = "list"] ELSE v

\* json.dumps(report, indent=2): the document, with the values of the theorem
\* entries as JSON writes them
json_dumps(doc) ==
    [doc EXCEPT !.theorems =
        [n \in 1..Len(@) |->
            [k |-> @[n].k,
             v |-> [@[n].v EXCEPT !.passed = JsonOfPassed(@),
                                  !.dependencies = JsonOfDependencies(@)]]]]

\* r['name'] is read of every record: a KeyError without it
ExportKeyError(results) == \E n \in 1..Len(results) : "name" \notin DOMAIN results[n].v

export_json(m) == json_dumps(ReportDocument(m))

\* print(export_json(master)), line 972
ExportJson ==
    /\ pc = "done"
    /\ ~ExportKeyError(master.all_results)
    /\ report' = export_json(master)
    /\ pc' = "exported"
    /\ UNCHANGED <<all_results, idx, issues, graph, color, root, stack, cycles, chains,
                   dep_check, master, exc, result, errors>>
    /\ UNCHANGED <<producers, first, appended, exit_status>>

ExportRaise ==
    /\ pc = "done"
    /\ ExportKeyError(master.all_results)
    /\ pc' = "raised"
    /\ exc' = "KeyError"
    /\ UNCHANGED <<all_results, idx, issues, graph, color, root, stack, cycles, chains,
                   dep_check, master, result, errors>>
    /\ UNCHANGED <<producers, runs>>

-----------------------------------------------------------------------------
(* Runs that export, and run a second time on the batch *)

\* the largest number of unknown references in a batch to export
MaxUnknownRefs == 12

idT6 == <<"T", "6">>

\* the n-th of the unknown references: 'U_x', 'U_xx', ...
UnknownRef(n) == <<"U", "_">> \o [m \in 1..n |-> "x"]

UnknownRefs(n) == [m \in 1..n |-> UnknownRef(m)]

\* the references of the two records to each other, listed first
Links == {<< <<>>, <<>> >>, << <<>>, <<idT6>> >>, << <<idT6>>, <<idT10>> >>}

ExportShapes == {"ok", "no_name", "no_passed", "no_dependencies", "deps_tuple",
                 "deps_int", "epistemic_X"}

\* where the unknown references are cut between the two records
ExportCuts(n) == {0, 1, n} \cap 0..n

\* T10, P_structural and with an imported theorem, and T6, of any shape
ExportBatch(n, c, link, shape) ==
    Entry(idT10,
          With(Theorem(4, "True", "P_structural",
                       ListOf(link[1] \o SubSeq(UnknownRefs(n), 1, c))),
               "imported_theorems", <<[k |-> "Lovelock theorem (1971)",
                                       v |-> Statement("statement")]>>))
    \o Entry(idT6, Shaped(shape, link[2] \o SubSeq(UnknownRefs(n), c + 1, n)))

InitExport ==
    \E n \in 0..MaxUnknownRefs : \E c \in ExportCuts(n) : \E link \in Links :
        \E shape \in ExportShapes : Start(ExportBatch(n, c, link, shape))

\* what the first run returned
FirstRun == [dep_check |-> dep_check, master |-> master, report |-> report]

\* the references that may be added to a record between two runs
refU_note == <<"U", " ", "(", "T", "6", ")">>

ExtraRefs == {refU, refU_note}

\* r with dep appended to its dependencies
AppendDependency(r, dep) ==
    [r EXCEPT !["dependencies"] = [@ EXCEPT !.items = Append(@, dep)]]

\* a second run_master / export_json on the same batch
RunAgain ==
    /\ pc = "exported"
    /\ first = <<>>
    /\ first' = <<FirstRun>>
    /\ issues' = NewIssues
    /\ idx' = 0
    /\ pc' = "validate"
    /\ UNCHANGED <<all_results, graph, color, root, stack, cycles, chains, dep_check,
                   master, exc, result, errors>>
    /\ UNCHANGED <<producers, report, appended, exit_status>>

\* a second run on the batch with one more reference in one record's list
RunAgainWithReference ==
    /\ pc = "exported"
    /\ first = <<>>
    /\ first' = <<FirstRun>>
    /\ \E n \in 1..Len(all_results) : \E dep \in ExtraRefs :
          /\ "dependencies" \in DOMAIN all_results[n].v
          /\ IsList(all_results[n].v["dependencies"])
          /\ all_results' = [all_results EXCEPT ![n].v = AppendDependency(@, dep)]
          /\ appended' = <<[tid |-> all_results[n].k, dep |-> dep]>>
    /\ issues' = NewIssues
    /\ idx' = 0
    /\ pc' = "validate"
    /\ UNCHANGED <<graph, color, root, stack, cycles, chains, dep_check, master, exc,
                   result, errors>>
    /\ UNCHANGED <<producers, report, exit_status>>

-----------------------------------------------------------------------------
(* _verify_schema called on one record *)

SchemaPassed == {"True", "False", "1", "None"}

SchemaEpistemic == EpistemicTags \cup {"X"}

SchemaDependencies == {ListOf(<<>>), ListOf(<<idA>>), TupleOf(<<idA>>), IntValue}

InitSchema ==
    /\ \E present \in SUBSET (required \cup {"imported_theorems"}) :
       \E p \in SchemaPassed : \E e \in SchemaEpistemic : \E d \in SchemaDependencies :
          result = [f \in present |->
                       IF f = "imported_theorems" THEN "imports"
                       ELSE Theorem(0, p, e, d)[f]]
    /\ pc = "schema"
    /\ errors = <<>>
    /\ all_results = <<>>
    /\ idx = 0
    /\ issues = <<>>
    /\ graph = <<>>
    /\ color = <<>>
    /\ root = 0
    /\ stack = <<>>
    /\ cycles = <<>>
    /\ chains = <<>>
    /\ dep_check = Nothing
    /\ master = Nothing
    /\ exc = ""
    /\ t0_audit = Nothing
    /\ t0_result = Nothing
    /\ bank_results = Nothing
    /\ gravity_bundle = Nothing
    /\ grav_theorems = Nothing
    /\ closure_theorems = Nothing
    /\ dark_theorems = Nothing
    /\ report = Nothing
    /\ first = <<>>
    /\ appended = <<>>
    /\ exit_status = <<>>

VerifySchema ==
    /\ pc = "schema"
    /\ errors' = _verify_schema(result)
    /\ pc' = "schema_done"
    /\ UNCHANGED <<all_results, idx, issues, graph, color, root, stack, cycles, chains,
                   dep_check, master, exc, result>>
    /\ UNCHANGED <<producers, runs>>

NextSchema == VerifySchema

SpecSchema == InitSchema /\ [][NextSchema]_vars

-----------------------------------------------------------------------------

Next ==
    \/ ValidateRecord
    \/ ValidateRaise
    \/ DetectCyclesBuild
    \/ DfsRoot
    \/ DfsNeighbor
    \/ DfsReturn
    \/ ValidateReturn
    \/ ComputeStatistics
    \/ StatisticsRaise

Spec == Init /\ [][Next]_vars

\* where the run is: every step of Next moves it
position == <<pc, idx, root, stack>>

\* the run is one thread that executes its next statement until it returns or
\* raises
SpecFair == Spec /\ WF_position(Next)

\* run_master from its call on
NextMaster ==
    \/ RunTheorem0
    \/ RunProducers
    \/ MergeResults
    \/ Next

SpecMaster == InitMaster /\ [][NextMaster]_vars

\* a run that exports its report, and a second run
NextExport ==
    \/ Next
    \/ ExportJson
    \/ ExportRaise
    \/ RunAgain
    \/ RunAgainWithReference

SpecExport == InitExport /\ [][NextExport]_vars

\* a slip: the process fails when the ledger is not valid, too
StatusOfLedger(m) == IF m.all_pass /\ m.dependency_check.valid THEN 0 ELSE 1

\* 0 if master['all_pass'] else 1
StatusOf(m) == IF m.all_pass THEN 0 ELSE 1

\* sys.exit(0 if master['all_pass'] else 1), line 983, after the display or the
\* export of the report
SysExit ==
    /\ pc \in {"done", "exported"}
    /\ exit_status' = <<StatusOf(master)>>
    /\ pc' = "exited"
    /\ UNCHANGED <<all_results, idx, issues, graph, color, root, stack, cycles, chains,
                   dep_check, master, exc, result, errors>>
    /\ UNCHANGED <<producers, report, first, appended>>

\* __main__ from the call of validate_dependencies on: batches with records of
\* every shape, and batches of records that passed or failed
InitMain == InitShape \/ InitTier

NextMain ==
    \/ Next
    \/ ExportJson
    \/ ExportRaise
    \/ SysExit

SpecMain == InitMain /\ [][NextMain]_vars

-----------------------------------------------------------------------------
(* Vocabulary of the properties, stated on the batch and the results *)

\* the claim ids of the batch
Ids == Range(Keys(all_results))

\* the dependency references of claim tid, in order
Refs(tid) == Dependencies(Lookup(all_results, tid))

MinOf(S) == CHOOSE x \in S : \A y \in S : x <= y
MaxOf(S) == CHOOSE x \in S : \A y \in S : y <= x

\* the text of reference d before its first "(", without surrounding blanks
Stem(d) ==
    LET parens == {n \in 1..Len(d) : d[n] = "("}
        stop == IF parens = {} THEN Len(d) ELSE MinOf(parens) - 1
        solid == {n \in 1..stop : d[n] # " "}
    IN  IF solid = {} THEN <<>> ELSE SubSeq(d, MinOf(solid), MaxOf(solid))

Prefix(a, d) == Len(a) <= Len(d) /\ \A n \in 1..Len(a) : d[n] = a[n]

\* claim a has a reference that names claim b of the batch
ClaimEdge(a, b) ==
    a \in Ids /\ b \in Ids /\ \E n \in 1..Len(Refs(a)) : Stem(Refs(a)[n]) = b

\* ... and b is no axiom id
NonAxiomEdge(a, b) == ClaimEdge(a, b) /\ b \notin AXIOMS

\* an edge of the adjacency list _detect_cycles built
GraphEdge(a, b) == Has(graph, a) /\ b \in Range(Lookup(graph, a))

\* p is a chain of edges: E(p[1], p[2]), E(p[2], p[3]), ...
IsChain(p, E(_, _)) == \A m \in 1..(Len(p) - 1) : E(p[m], p[m + 1])

\* the non-empty sequences of ids of the batch, up to the number of ids
NonEmptyIdSeqs == SeqsUpTo(Ids, Cardinality(Ids)) \ {<<>>}

\* the ids one edge of R away from S, added to S, n times over
RECURSIVE Grow(_, _, _)
Grow(S, R, n) ==
    IF n = 0 THEN S ELSE Grow(S \cup {e[2] : e \in {e \in R : e[1] \in S}}, R, n - 1)

\* the pairs <<a, b>> of ids with b reached from a by one or more edges
ReachPairs(E(_, _)) ==
    LET R == {e \in Ids \X Ids : E(e[1], e[2])}
    IN  {e \in Ids \X Ids :
            e[2] \in Grow({f[2] : f \in {f \in R : f[1] = e[1]}}, R, Cardinality(Ids))}

\* b is reached from a by one or more edges
Reaches(a, b, E(_, _)) == <<a, b>> \in ReachPairs(E)

\* the ids that depend on themselves through one or more edges
SelfDependent(E(_, _)) == {a \in Ids : <<a, a>> \in ReachPairs(E)}

DependsOnItself(a, E(_, _)) == a \in SelfDependent(E)

\* validate_dependencies has returned its report
ValidateReturned == pc \in {"statistics", "done"} \/ (pc = "raised" /\ exc = "KeyError")

\* a reference is known, in the words of the specification
KnownRef(d) ==
    LET known == Ids \cup AXIOMS \cup KNOWN_EXTERNALS
    IN  d \in known \/ Stem(d) \in known \/ \E a \in AXIOMS : Prefix(a, d)

\* a record passes the schema check, in the words of the specification
PassesSchema(r) ==
    /\ required \subseteq DOMAIN r
    /\ r["passed"] \in {"True", "False"}
    /\ r["dependencies"].type = "list"
    /\ r["epistemic"] \in {"P", "P_structural", "C_structural", "C", "W", "ERROR"}

Occurrences(seq, x) == Cardinality({n \in 1..Len(seq) : seq[n] = x})

-----------------------------------------------------------------------------
(* C1 *)

-----------------------------------------------------------------------------
(* C2 *)

\* C2: every reported cycle string is the join of a closed chain (first id = last
\* id) whose consecutive ids are edges of the built graph; and while the built
\* graph is acyclic no cycle is reported.
C2_Soundness ==
    /\ Len(cycles) = Len(chains)
    /\ \A n \in 1..Len(chains) :
          /\ cycles[n] = JoinArrow(chains[n])
          /\ Len(chains[n]) >= 2
          /\ chains[n][1] = chains[n][Len(chains[n])]
          /\ IsChain(chains[n], GraphEdge)
    /\ cycles # <<>> => SelfDependent(GraphEdge) # {}

\* the search has reported two chains, one of them through two claims and met
\* below the root of the search
C2_Witness ==
    /\ pc = "done"
    /\ Len(chains) >= 2
    /\ \E n \in 1..Len(chains) : Len(chains[n]) = 3 /\ chains[n][1] # graph[1].k

-----------------------------------------------------------------------------
(* C3 *)

\* C3: the report has valid = true exactly when every record passes the schema
\* check, every dependency reference is known and cycles_found = 0; and
\* total_checked is the number of records.
C3_ValidIff ==
    ValidateReturned =>
        /\ dep_check.valid <=>
              /\ \A n \in 1..Len(all_results) : PassesSchema(all_results[n].v)
              /\ \A a \in Ids : \A n \in 1..Len(Refs(a)) : KnownRef(Refs(a)[n])
              /\ dep_check.cycles_found = 0
        /\ dep_check.total_checked = Len(all_results)

\* a batch of two records, one depending on the other, was found valid
C3_Witness ==
    /\ pc = "done"
    /\ Len(all_results) = 2
    /\ Refs(idA) = <<>>
    /\ Refs(idB) = <<idA>>
    /\ dep_check.valid
    /\ dep_check.cycles_found = 0
    /\ dep_check.total_checked = 2

-----------------------------------------------------------------------------
(* C4 *)

NotInRegistry(tid, d) ==
    {n \in 1..Len(dep_check.issues) :
        /\ dep_check.issues[n].kind = "not in registry"
        /\ dep_check.issues[n].tid = tid
        /\ dep_check.issues[n].dep = d}

\* C4: for every record and every reference d in it, the report holds as many
\* issues naming the record and d as d occurs in the record if d is not known,
\* and none if d is known; there are no other issues about references.
C4_UnknownReferences ==
    ValidateReturned =>
        /\ \A a \in Ids : \A d \in Range(Refs(a)) :
              Cardinality(NotInRegistry(a, d)) =
                  IF KnownRef(d) THEN 0 ELSE Occurrences(Refs(a), d)
        /\ \A n \in 1..Len(dep_check.issues) :
              dep_check.issues[n].kind = "not in registry" =>
                  /\ dep_check.issues[n].tid \in Ids
                  /\ dep_check.issues[n].dep \in Range(Refs(dep_check.issues[n].tid))

\* the batch {A: [U]} was validated: one issue, naming A and U
C4_Witness ==
    /\ pc = "done"
    /\ Len(all_results) = 1
    /\ Refs(idA) = <<refU>>
    /\ PassesSchema(all_results[1].v)
    /\ ~dep_check.valid
    /\ Len(dep_check.issues) = 1
    /\ Cardinality(NotInRegistry(idA, refU)) = 1

-----------------------------------------------------------------------------
(* C5 *)

\* C5: for every batch, validation and the statistics step run to completion:
\* the run never ends in an exception.
C5_NeverAborts == pc # "raised"

-----------------------------------------------------------------------------
(* C6 *)

ErrorsNamed(e) == {n \in 1..Len(errors) : errors[n].err = e}

\* the type and enum checks a record violates with a value it has
ViolatedChecks(r) ==
    {f \in {"passed", "dependencies", "epistemic"} \cap DOMAIN r :
        CASE f = "passed" -> r[f] \notin {"True", "False"}
          [] f = "dependencies" -> r[f].type # "list"
          [] f = "epistemic" ->
                 r[f] \notin {"P", "P_structural", "C_structural", "C", "W", "ERROR"}}

ErrorOfCheck(f) ==
    CASE f = "passed" -> "'passed' must be bool"
      [] f = "dependencies" -> "'dependencies' must be list"
      [] f = "epistemic" -> "Unknown epistemic tag"

\* C6: _verify_schema returns no issue exactly for a record that has the seven
\* required fields, a boolean passed, a list dependencies and an epistemic tag
\* of the closed set; each violated type or enum check has its own issue, and
\* the issue of the enum check names the offending tag.
C6_SchemaIff ==
    pc = "schema_done" =>
        /\ errors = <<>> <=> PassesSchema(result)
        /\ \A f \in ViolatedChecks(result) : Cardinality(ErrorsNamed(ErrorOfCheck(f))) = 1
        /\ \A n \in ErrorsNamed("Unknown epistemic tag") :
              errors[n].value = Get(result, "epistemic", "None")

\* a record with all fields that violates the three checks at once was checked
C6_Witness ==
    /\ pc = "schema_done"
    /\ required \subseteq DOMAIN result
    /\ ViolatedChecks(result) = {"passed", "dependencies", "epistemic"}
    /\ Len(errors) = 3

-----------------------------------------------------------------------------
(* C7 *)

Missing == required \ DOMAIN result

FieldsOf(e) ==
    CASE e.err = "Missing fields" -> e.fields
      [] e.err = "'passed' must be bool" -> {"passed"}
      [] e.err = "'dependencies' must be list" -> {"dependencies"}
      [] e.err = "Unknown epistemic tag" -> {"epistemic"}

\* the fields the issue list names as a problem
NamedFields == UNION {FieldsOf(errors[n]) : n \in 1..Len(errors)}

MissingReportedOnce ==
    /\ errors # <<>>
    /\ Cardinality(ErrorsNamed("Missing fields")) = 1
    /\ \A n \in ErrorsNamed("Missing fields") : errors[n].fields = Missing

\* C7, as stated: for a record missing required fields there is one issue that
\* lists exactly the missing fields, and the issue list names no other field.
C7_OnlyMissingNamed ==
    (pc = "schema_done" /\ Missing # {}) =>
        /\ MissingReportedOnce
        /\ NamedFields = Missing

\* C7, amended: ... and the issue list names no other field, except a field the
\* record has whose value fails its own type or enum check.
C7_MissingFields ==
    (pc = "schema_done" /\ Missing # {}) =>
        /\ MissingReportedOnce
        /\ Missing \subseteq NamedFields
        /\ NamedFields \subseteq Missing \cup ViolatedChecks(result)

\* a record missing name and passed, otherwise well-formed, was checked
C7_Witness ==
    /\ pc = "schema_done"
    /\ Missing = {"name", "passed"}
    /\ ViolatedChecks(result) = {}
    /\ NamedFields = {"name", "passed"}

-----------------------------------------------------------------------------
(* C8 *)

Distinct(p) == \A m, n \in 1..Len(p) : m # n => p[m] # p[n]

\* the simple cycles over the ids of the batch, each from any of its nodes
SimpleCycles(E(_, _)) ==
    {p \in NonEmptyIdSeqs : Distinct(p) /\ IsChain(Append(p, p[1]), E)}

Rotations(p) ==
    {[n \in 1..Len(p) |-> p[((n + k - 1) % Len(p)) + 1]] : k \in 0..(Len(p) - 1)}

\* some returned chain runs once around the simple cycle p
Reported(p) ==
    \E n \in 1..Len(chains) : \E r \in Rotations(p) : chains[n] = Append(r, r[1])

\* C8, as stated: every simple cycle of the dependency graph is one of the
\* chains _detect_cycles returned.
C8_AllSimpleCycles ==
    ValidateReturned => \A p \in SimpleCycles(GraphEdge) : Reported(p)

OnCommonCycle(a, b) == a = b \/ (Reaches(a, b, GraphEdge) /\ Reaches(b, a, GraphEdge))

\* C8, amended: every strongly connected loop is reported, not every simple
\* cycle: for every claim on a cycle of the dependency graph, some returned
\* chain runs through claims that are on a common cycle with it.
C8_EveryLoopReported ==
    ValidateReturned =>
        LET reach == ReachPairs(GraphEdge)
        IN  \A a \in Ids : <<a, a>> \in reach =>
                \E n \in 1..Len(chains) : \A x \in Range(chains[n]) :
                    x = a \/ (<<a, x>> \in reach /\ <<x, a>> \in reach)

\* two loops that share no claim were both reported
C8_Witness ==
    /\ pc = "done"
    /\ \E a, b \in Ids :
          /\ DependsOnItself(a, GraphEdge)
          /\ DependsOnItself(b, GraphEdge)
          /\ ~OnCommonCycle(a, b)
    /\ Len(chains) >= 2

-----------------------------------------------------------------------------
(* C9 *)

\* the place of claim a in the batch
Pos(a) == CHOOSE n \in 1..Len(all_results) : all_results[n].k = a

\* the simple cycles, each once: from its first claim in batch order
CyclesFromFirst(E(_, _)) ==
    {p \in SimpleCycles(E) : \A m \in 2..Len(p) : Pos(p[1]) < Pos(p[m])}

TheCycle(E(_, _)) == CHOOSE p \in CyclesFromFirst(E) : TRUE

WellFormedBatch ==
    /\ \A n \in 1..Len(all_results) : PassesSchema(all_results[n].v)
    /\ \A a \in Ids : \A n \in 1..Len(Refs(a)) : KnownRef(Refs(a)[n])

\* the issue list is one entry, the summary of the cycles found
OnlyCycleIssue ==
    /\ ~dep_check.valid
    /\ Len(dep_check.issues) = 1
    /\ dep_check.issues[1].kind = "CIRCULAR DEPENDENCIES"
    /\ dep_check.issues[1].cycles = cycles
    /\ dep_check.cycles_found = Len(cycles)

\* each step of the closed chain p is listed once by the claim that takes it
ListedOnce(p) ==
    \A m \in 1..(Len(p) - 1) :
        Cardinality({n \in 1..Len(Refs(p[m])) : Stem(Refs(p[m])[n]) = p[m + 1]}) = 1

EnteredAtFirst(p) ==
    \A e \in Ids : Pos(e) < Pos(p[1]) => ~Reaches(e, p[1], NonAxiomEdge)

\* the references of the chain's last claim that name its first claim
ClosingRefs(r) ==
    {n \in 1..Len(Refs(r[Len(r)])) : Stem(Refs(r[Len(r)])[n]) = r[1]}

-----------------------------------------------------------------------------
(* C10 *)

RECURSIVE SumTiers(_, _)
SumTiers(stats, field) ==
    IF stats = <<>> THEN 0 ELSE Head(stats).v[field] + SumTiers(Tail(stats), field)

\* s is a subsequence of t
IsSubsequence(s, t) ==
    \E f \in [1..Len(s) -> 1..Len(t)] :
        /\ \A n \in 1..Len(s) : t[f[n]] = s[n]
        /\ \A m, n \in 1..Len(s) : m < n => f[m] < f[n]

\* the tier entries that list claim tid as a member
EntriesOf(tid) ==
    {n \in 1..Len(master.tier_stats) : tid \in Range(master.tier_stats[n].v.theorems)}

\* C10 (on batches whose records all pass the schema check): after the
\* statistics step every record is a member of exactly one tier entry, the entry
\* of its own tier; the tier totals sum to total_theorems and the tier passed
\* counts to the overall passed count; members keep batch order.
C10_TierPartition ==
    (pc = "done" /\ \A n \in 1..Len(all_results) : PassesSchema(all_results[n].v)) =>
        /\ \A n \in 1..Len(all_results) :
              /\ Cardinality(EntriesOf(all_results[n].k)) = 1
              /\ \A e \in EntriesOf(all_results[n].k) :
                    /\ "tier" \in DOMAIN all_results[n].v
                    /\ master.tier_stats[e].k = all_results[n].v["tier"]
        /\ SumTiers(master.tier_stats, "total") = master.total_theorems
        /\ SumTiers(master.tier_stats, "passed") = master.passed
        /\ \A e \in 1..Len(master.tier_stats) :
              IsSubsequence(master.tier_stats[e].v.theorems, Keys(all_results))

-----------------------------------------------------------------------------
(* C11 *)

\* the ids each sector is configured with; none is configured for gravity
ConfiguredIds(sector) ==
    CASE sector = "gauge" ->
           {<<"T", "_", "c", "h", "a", "n", "n", "e", "l", "s">>, <<"T", "7">>,
            <<"T", "_", "g", "a", "u", "g", "e">>, <<"T", "5">>}
      [] sector = "rg_mechanism" ->
           {<<"T", "2", "0">>, <<"T", "2", "1">>, <<"T", "2", "2">>, <<"T", "2", "3">>,
            <<"T", "2", "4">>}
      [] sector = "gravity" -> {}

\* the AND of the passed flags of the records of the batch configured for sector
AndOfPassed(sector) ==
    \A tid \in ConfiguredIds(sector) \cap Ids : Lookup(all_results, tid)["passed"] = "True"

\* C11, as stated: every verdict in sector_verdicts is the AND of the passed
\* flags of the records, present in the batch, of the sector's configured ids.
C11_AllSectorVerdicts ==
    pc = "done" =>
        \A sector \in DOMAIN master.sector_verdicts :
            master.sector_verdicts[sector] = AndOfPassed(sector)

\* C11, amended: that holds of the gauge and rg_mechanism verdicts; the gravity
\* verdict is the all_pass flag of the gravity bundle, whatever the batch holds.
C11_SectorVerdicts ==
    pc = "done" =>
        /\ DOMAIN master.sector_verdicts = {"gauge", "gravity", "rg_mechanism"}
        /\ master.sector_verdicts["gauge"] = AndOfPassed("gauge")
        /\ master.sector_verdicts["rg_mechanism"] = AndOfPassed("rg_mechanism")
        /\ master.sector_verdicts["gravity"] = gravity_bundle.all_pass

\* a run whose batch holds T5 (failed) and T7 (passed) but none of T20..T24:
\* gauge is false, rg_mechanism is true
C11_Witness ==
    /\ pc = "done"
    /\ ConfiguredIds("gauge") \cap Ids = {idT5, idT7}
    /\ Lookup(all_results, idT5)["passed"] = "False"
    /\ Lookup(all_results, idT7)["passed"] = "True"
    /\ ConfiguredIds("rg_mechanism") \cap Ids = {}
    /\ ~master.sector_verdicts["gauge"]
    /\ master.sector_verdicts["rg_mechanism"]

-----------------------------------------------------------------------------
(* C12 *)

Min(a, b) == IF a < b THEN a ELSE b

\* C12: in the exported document dependency_check.issues is the first
\* min(10, n) of the n validation issues, in their order; dependency_check.valid
\* and .cycles are the report's valid (true only if the full issue list is empty)
\* and cycles_found; theorems has exactly one entry per record id of the batch.
C12_ExportTruncation ==
    pc = "exported" =>
        LET exported == report.dependency_check
            n == Len(dep_check.issues)
        IN  /\ Len(exported.issues) = Min(10, n)
            /\ \A m \in 1..Min(10, n) : exported.issues[m] = dep_check.issues[m]
            /\ exported.valid = dep_check.valid
            /\ exported.valid <=> (n = 0)
            /\ exported.cycles = dep_check.cycles_found
            /\ exported.cycles = Len(cycles)
            /\ Len(report.theorems) = Len(all_results)
            /\ \A tid \in Ids :
                  Cardinality({m \in 1..Len(report.theorems) : report.theorems[m].k = tid}) = 1

\* a report of 14 issues, the last of them the summary of a cycle, was exported
\* with its first 10 issues
C12_Witness ==
    /\ pc = "exported"
    /\ Len(dep_check.issues) = 14
    /\ dep_check.issues[14].kind = "CIRCULAR DEPENDENCIES"
    /\ Len(report.dependency_check.issues) = 10
    /\ report.dependency_check.cycles = 1
    /\ ~report.dependency_check.valid

-----------------------------------------------------------------------------
(* C13 *)

\* the second run on the batch as the first run left it
SecondRun == first # <<>> /\ appended = <<>>

\* C13: no step of validation, aggregation or export changes a record or the
\* batch mapping, and a second validate, aggregate, export on the unmodified
\* batch does not raise and returns the report, the statistics and the exported
\* document of the first run.
C13_PureAndRepeatable ==
    /\ [][appended' = appended => all_results' = all_results]_vars
    /\ [](SecondRun => pc # "raised")
    /\ [](SecondRun /\ pc \in {"done", "exported"} =>
              /\ dep_check = first[1].dep_check
              /\ master = first[1].master
              /\ master.all_results = all_results)
    /\ [](SecondRun /\ pc = "exported" => report = first[1].report)

\* a batch with schema, reference and cycle issues was exported a second time
C13_Witness ==
    /\ SecondRun
    /\ pc = "exported"
    /\ dep_check.cycles_found = 1
    /\ Len(dep_check.issues) >= 4
    /\ \E m \in 1..Len(dep_check.issues) : dep_check.issues[m].kind = "schema errors"

-----------------------------------------------------------------------------
(* C14 *)

\* the batches of the five stages, in merge order
Stages == <<t0_result, bank_results, grav_theorems, closure_theorems, dark_theorems>>

Supplies(s, tid) == Has(Stages[s], tid)

SuppliedIds == UNION {Range(Keys(Stages[s])) : s \in 1..5}

\* the latest stage that supplies tid
LatestStage(tid) == CHOOSE s \in 1..5 : Supplies(s, tid) /\ \A t \in (s + 1)..5 : ~Supplies(t, tid)

Merged == pc \notin {"run_master", "producers", "merge"}

\* C14: once the stages are merged, the batch holds, for every id a stage
\* supplies, exactly one record, the record of the latest stage in the order
\* Theorem-0, bank, pre-closure gravity, Gamma closure, dark sector that
\* supplies it, and holds no other id; total_theorems is the number of distinct
\* supplied ids.
C14_LastWriteWins ==
    Merged =>
        /\ Ids = SuppliedIds
        /\ \A tid \in SuppliedIds :
              /\ Cardinality({m \in 1..Len(all_results) : all_results[m].k = tid}) = 1
              /\ Lookup(all_results, tid) = Lookup(Stages[LatestStage(tid)], tid)
        /\ pc = "done" => master.total_theorems = Cardinality(SuppliedIds)

\* T0 came from Theorem-0 and from the bank, T8 from the bank and from the
\* pre-closure gravity stage: the merged batch has the bank's T0 and gravity's T8
C14_Witness ==
    /\ pc = "done"
    /\ Supplies(1, idT0) /\ Supplies(2, idT0)
    /\ Lookup(t0_result, idT0) # Lookup(bank_results, idT0)
    /\ Lookup(all_results, idT0) = Lookup(bank_results, idT0)
    /\ Supplies(2, idT8) /\ Supplies(3, idT8)
    /\ Lookup(bank_results, idT8) # Lookup(grav_theorems, idT8)
    /\ Lookup(all_results, idT8) = Lookup(grav_theorems, idT8)
    /\ master.total_theorems < Len(t0_result) + Len(bank_results) + Len(grav_theorems)
                                + Len(closure_theorems) + Len(dark_theorems)

-----------------------------------------------------------------------------
(* C15 *)

\* validate_dependencies has returned on the batch with the appended reference
Revalidated == appended # <<>> /\ pc \in {"statistics", "done", "exported"}

\* C15: when one unresolved reference is appended to the dependencies of one
\* record and the batch is validated again, the report has at least as many
\* issues as the report on the batch before, and the same cycles_found.
C15_Monotonic ==
    Revalidated /\ Unresolved(appended[1].dep, known_ids(all_results)) =>
        /\ Len(dep_check.issues) >= Len(first[1].dep_check.issues)
        /\ dep_check.cycles_found = first[1].dep_check.cycles_found

\* 'U (T6)' was appended to a record of a batch with a cycle and other issues:
\* one issue more, and still one cycle
C15_Witness ==
    /\ Revalidated
    /\ appended[1].dep = refU_note
    /\ Unresolved(refU_note, known_ids(all_results))
    /\ first[1].dep_check.cycles_found = 1
    /\ dep_check.cycles_found = 1
    /\ Len(first[1].dep_check.issues) >= 3
    /\ Len(dep_check.issues) = Len(first[1].dep_check.issues) + 1

-----------------------------------------------------------------------------
(* C16 *)

\* _run_theorem_0 has returned
Theorem0Ran == pc # "run_master"

\* the merged batch has no T0 record but one the bank supplied
NoT0FromProducer ==
    Has(all_results, idT0) =>
        Supplies(2, idT0) /\ Lookup(all_results, idT0) = Lookup(bank_results, idT0)

\* C16 as stated: whenever the Theorem-0 producer fails, by a failed import or by
\* any exception of its audit, _run_theorem_0 returns an empty batch and the
\* merged batch has no T0 record from it.
C16_FailureYieldsNoRecords ==
    Theorem0Ran /\ t0_audit.outcome # "report" =>
        /\ t0_result = <<>>
        /\ Merged => NoT0FromProducer

\* C16, amended: a failed import makes _run_theorem_0 return an empty batch, and
\* the merged batch then has no T0 record from it; any other exception of the
\* audit makes it return one well-formed T0 record with passed = False, which
\* the merged batch holds unless the bank supplies T0.
C16_FailureResolved ==
    Theorem0Ran =>
        /\ t0_audit.outcome = "ImportError" =>
              /\ t0_result = <<>>
              /\ Merged => NoT0FromProducer
        /\ t0_audit.outcome \notin {"report", "ImportError"} =>
              /\ Keys(t0_result) = <<idT0>>
              /\ _verify_schema(t0_result[1].v) = <<>>
              /\ t0_result[1].v["passed"] = "False"
              /\ Merged /\ ~Supplies(2, idT0) =>
                    Lookup(all_results, idT0) = t0_result[1].v

\* the import failed and the run finished on a batch without T0
C16_Witness ==
    /\ pc = "done"
    /\ t0_audit.outcome = "ImportError"
    /\ t0_result = <<>>
    /\ ~Has(all_results, idT0)
    /\ Len(all_results) > 0

-----------------------------------------------------------------------------
(* C17 *)

\* the adjacency list has been built
GraphBuilt == pc \in {"dfs", "statistics", "done"}

\* the cleaned forms of the references of claim tid
Stems(tid) == {Stem(Refs(tid)[n]) : n \in 1..Len(Refs(tid))}

\* C17: the nodes of the graph are the record ids of the batch, each once, and
\* the targets of the edges of a claim are the cleaned forms of its references
\* that are record ids of the batch and not axiom ids: a reference to an axiom
\* or to anything that is no record id yields no edge.
C17_GraphShape ==
    GraphBuilt =>
        /\ Keys(graph) = Keys(all_results)
        /\ \A tid \in Ids : Range(Lookup(graph, tid)) = (Stems(tid) \cap Ids) \ AXIOMS

\* a batch with a record whose id is an axiom id: a claim refers to it and to
\* another claim, and has an edge to the other claim only; a record without
\* references is an isolated node
C17_Witness ==
    /\ GraphBuilt
    /\ \E tid \in Ids :
          /\ \E d \in Stems(tid) \cap Ids \cap AXIOMS : ~GraphEdge(tid, d)
          /\ \E d \in Stems(tid) \cap Ids : GraphEdge(tid, d)
    /\ \E tid \in Ids : Lookup(graph, tid) = <<>>

-----------------------------------------------------------------------------
(* C18 *)

\* the colour of tid changes from one colour to the next one
Darkens(tid) ==
    \/ color[tid] = WHITE /\ color'[tid] = GRAY
    \/ color[tid] = GRAY /\ color'[tid] = BLACK

\* a call of dfs starts in this step
Entering == Len(stack') > Len(stack)

\* C18: the search ends on every batch; while it runs a colour only changes
\* from white to gray and from gray to black, so a node is made gray once and
\* black once; dfs is only called on a white node, so a black node is never
\* explored again; every node is black when _detect_cycles has returned.
C18_SearchTerminates ==
    /\ (pc = "dfs") ~> (pc \in {"statistics", "done"})
    /\ [][pc = "dfs" =>
              /\ DOMAIN color' = DOMAIN color
              /\ \A tid \in DOMAIN color : color'[tid] # color[tid] => Darkens(tid)
              /\ Entering => /\ color[stack'[Len(stack')].node] = WHITE
                             /\ color'[stack'[Len(stack')].node] = GRAY]_vars
    /\ [](pc \in {"statistics", "done"} =>
              /\ DOMAIN color = Ids
              /\ \A tid \in Ids : color[tid] = BLACK)

\* the search of a batch of three claims on a cycle has returned, with a chain
\* found and every node black
C18_Witness ==
    /\ pc = "statistics"
    /\ Cardinality(Ids) = 3
    /\ Len(chains) >= 1
    /\ \A tid \in Ids : color[tid] = BLACK /\ Lookup(graph, tid) # <<>>

-----------------------------------------------------------------------------
(* C19 *)

IsSummary(issue) == issue.kind = "CIRCULAR DEPENDENCIES"

\* the issues about the records: all issues but the summary of the cycles
RecordPart ==
    LET About(issue) == ~IsSummary(issue)
    IN  SelectSeq(dep_check.issues, About)

\* the issues about claim tid, in the order of the report
IssuesOf(tid) ==
    LET About(issue) == issue.tid = tid
    IN  SelectSeq(RecordPart, About)

\* the references of claim tid that are not known, in the order of its list
UnknownRefsOf(tid) ==
    LET Unknown(d) == ~KnownRef(d)
    IN  SelectSeq(Refs(tid), Unknown)

\* C19: the issues about the records come in batch order; those of one record
\* are its schema issue if it fails the schema check, one issue carrying all
\* its schema errors, and then one issue for each unknown reference in the
\* order of its dependencies; if chains were found, one more issue, the last,
\* lists them all, and cycles_found is the number of chains found whatever
\* other issues there are.
C19_IssueOrder ==
    ValidateReturned =>
        /\ \A m, n \in 1..Len(RecordPart) :
              m < n => Pos(RecordPart[m].tid) <= Pos(RecordPart[n].tid)
        /\ \A n \in 1..Len(RecordPart) : RecordPart[n].tid \in Ids
        /\ \A tid \in Ids :
              LET mine == IssuesOf(tid)
                  r == Lookup(all_results, tid)
                  schema == IF PassesSchema(r) THEN 0 ELSE 1
              IN  /\ Len(mine) = schema + Len(UnknownRefsOf(tid))
                  /\ schema = 1 => /\ mine[1].kind = "schema errors"
                                   /\ mine[1].errors = _verify_schema(r)
                                   /\ mine[1].errors # <<>>
                  /\ \A n \in 1..Len(UnknownRefsOf(tid)) :
                        /\ mine[schema + n].kind = "not in registry"
                        /\ mine[schema + n].dep = UnknownRefsOf(tid)[n]
        /\ Len(dep_check.issues) = Len(RecordPart) + (IF Len(chains) > 0 THEN 1 ELSE 0)
        /\ Len(chains) > 0 =>
              /\ IsSummary(dep_check.issues[Len(dep_check.issues)])
              /\ Len(dep_check.issues[Len(dep_check.issues)].cycles) = Len(chains)
        /\ dep_check.cycles_found = Len(chains)

\* a record that fails the schema check, with an unknown reference and a
\* reference to itself: its schema issue, its reference issue, the summary
C19_Witness ==
    /\ ValidateReturned
    /\ Len(dep_check.issues) = 3
    /\ dep_check.issues[1].kind = "schema errors"
    /\ dep_check.issues[2].kind = "not in registry"
    /\ dep_check.issues[2].tid = dep_check.issues[1].tid
    /\ IsSummary(dep_check.issues[3])
    /\ dep_check.cycles_found = 1

-----------------------------------------------------------------------------
(* C20 *)

GrayNodes == {tid \in DOMAIN color : color[tid] = GRAY}

\* the path of the innermost call of dfs; empty between two searches
CurrentPath == IF stack = <<>> THEN <<>> ELSE Top.path

\* the neighbour the innermost call examines next, if it has one left
NextNeighbor ==
    IF stack # <<>> /\ Top.n < Len(Lookup(graph, Top.node))
    THEN {Lookup(graph, Top.node)[Top.n + 1]}
    ELSE {}

\* C20: at every step of the search the gray nodes are the nodes of the current
\* path, the path has no node twice, consecutive nodes of the path are edges of
\* the graph and the path ends at the node being explored (the calls of dfs in
\* progress are its prefixes); so a gray neighbour is on the path, and
\* path.index never raises.
C20_GrayIsPath ==
    /\ pc = "dfs" =>
          /\ GrayNodes = Range(CurrentPath)
          /\ Cardinality(Range(CurrentPath)) = Len(CurrentPath)
          /\ IsChain(CurrentPath, GraphEdge)
          /\ Len(stack) = Len(CurrentPath)
          /\ \A m \in 1..Len(stack) :
                /\ stack[m].node = CurrentPath[m]
                /\ stack[m].path = SubSeq(CurrentPath, 1, m)
          /\ \A neighbor \in NextNeighbor :
                color[neighbor] = GRAY => neighbor \in Range(CurrentPath)
    /\ pc = "raised" => exc # "ValueError"

\* three calls deep, the search meets the gray node it started from
C20_Witness ==
    /\ pc = "dfs"
    /\ Len(stack) = 3
    /\ Cardinality(GrayNodes) = 3
    /\ \E neighbor \in NextNeighbor : color[neighbor] = GRAY /\ neighbor = Top.path[1]

-----------------------------------------------------------------------------
(* C21 *)

\* C21: the list of cycles never holds the same chain twice, so that
\* cycles_found, when validate_dependencies returns, is the number of distinct
\* chains.
C21_NoChainTwice ==
    /\ \A m, n \in 1..Len(cycles) : m # n => cycles[m] # cycles[n]
    /\ \A m, n \in 1..Len(chains) : m # n => chains[m] # chains[n]
    /\ ValidateReturned => dep_check.cycles_found = Cardinality(Range(cycles))

-----------------------------------------------------------------------------
(* C22 *)

\* every record of the batch passed, as the statistics count it
EveryRecordPassed == \A n \in 1..Len(all_results) : Truthy(all_results[n].v["passed"])

\* C22 as stated: whenever the report has valid = false, all_pass is false and
\* the exit status is not 0; the exit status is 0 only when every record passed
\* and the ledger is valid.
C22_ExitAgreesWithValid ==
    /\ pc \in {"done", "exported", "exited"} /\ ~dep_check.valid => ~master.all_pass
    /\ pc = "exited" =>
          /\ ~dep_check.valid => exit_status[1] # 0
          /\ exit_status[1] = 0 => EveryRecordPassed /\ dep_check.valid

\* C22, amended: all_pass is true exactly when every record passed, and a run
\* that reaches sys.exit exits with 0 exactly when all_pass is true and with 1
\* otherwise, whatever the validation reports; the outcome of the validation is
\* handed on unchanged in dependency_check.
C22_ExitFollowsAllPass ==
    /\ pc \in {"done", "exported", "exited"} =>
          /\ master.all_pass <=> EveryRecordPassed
          /\ master.dependency_check = dep_check
    /\ pc = "exited" =>
          /\ exit_status \in {<<0>>, <<1>>}
          /\ exit_status = <<0>> <=> master.all_pass
    /\ pc # "exited" => exit_status = <<>>

\* a batch whose records all passed, with a cycle: valid = false, all_pass is
\* true and the process exited with 0
C22_Witness ==
    /\ pc = "exited"
    /\ ~dep_check.valid
    /\ dep_check.cycles_found = 1
    /\ EveryRecordPassed
    /\ master.all_pass
    /\ exit_status = <<0>>

====
